---- MODULE Spec2Model ----
(***************************************************************************)
(* Session orchestration of the Batak assistants.                          *)
(*                                                                         *)
(* One behaviour is one run of one entry point: the unified assistant      *)
(* (batak_ollama.py), one of the five single-provider assistants, or the   *)
(* one-shot email client.  The state is the position of main(), the stack  *)
(* of scoped acquisitions (stdio transport and ClientSession per           *)
(* provider), the handshake stage of every provider, the global            *)
(* conversation_history and what the run has shown and sent so far.        *)
(*                                                                         *)
(* Text is a sequence of characters, so that strip() and lower() are       *)
(* computed and not assumed.  Exceptions are the ones `except Exception`   *)
(* catches.                                                                *)
(***************************************************************************)
EXTENDS Integers, Sequences, FiniteSets, TLC

VARIABLES
    prog,                  \* the entry point that is run
    env,                   \* environment variables that are set
    pc,                    \* position of the control flow
    ollama,                \* outcome of the ollama.list() probe
    opened,                \* stack of open scoped resources, oldest first
    closed,                \* resources closed so far, in closing order
    stage,                 \* per provider: handshake progress
    exc,                   \* an exception is propagating out of the with-blocks
    conversation_history,  \* batak_ollama.conversation_history
    request,               \* the reasoning request last issued
    response,              \* the value last returned to the loop
    printed,               \* messages printed since the last prompt, in order
    line,                  \* the line last returned by input()
    accepted,              \* the lines passed on to request processing, in order
    inputsRead,            \* number of lines input() has returned
    calls,                 \* number of reasoning calls issued
    toolCalls,             \* per provider: number of call_tool requests received
    mainRan,               \* asyncio.run(main()) was executed
    startFailed,           \* a provider failed to launch or handshake
    quitRead,              \* the sentinel was read
    outstanding,           \* reasoning calls issued and not yet completed
    worker,                \* the thread-pool worker of asyncio.to_thread
    blocked,               \* the event-loop thread is inside a blocking call
    ioServiced,            \* provider I/O was serviced during the outstanding call
    loopCalls,             \* call_tool requests issued by the entry point's own code
    returned               \* number of reasoning calls that returned a result

vars == <<prog, env, pc, ollama, opened, closed, stage, exc, conversation_history,
          request, response, printed, line, accepted, inputsRead, calls,
          toolCalls, mainRan, startFailed, quitRead, outstanding, worker, blocked,
          ioServiced, loopCalls, returned>>

-----------------------------------------------------------------------------
(* Bounds *)

MaxInputs == 2
MaxToolCalls == 1

-----------------------------------------------------------------------------
(* Text *)

Whitespace == {" "}

RECURSIVE LStrip(_)
LStrip(s) == IF s # <<>> /\ Head(s) \in Whitespace THEN LStrip(Tail(s)) ELSE s

RECURSIVE RStrip(_)
RStrip(s) ==
    IF s # <<>> /\ s[Len(s)] \in Whitespace THEN RStrip(SubSeq(s, 1, Len(s) - 1)) ELSE s

\* str.strip()
Strip(s) == RStrip(LStrip(s))

LowerChar(c) ==
    CASE c = "Q" -> "q"
      [] c = "U" -> "u"
      [] c = "I" -> "i"
      [] c = "T" -> "t"
      [] c = "H" -> "h"
      [] OTHER -> c

\* str.lower()
Lower(s) == [i \in 1..Len(s) |-> LowerChar(s[i])]

QuitWord == <<"q", "u", "i", "t">>

\* The lines standard input can deliver.
InputLines ==
    { <<" ">>,
      <<"h", "i">>,
      <<" ", "H", "i", " ">>,
      <<"q", "u", "i", "t">>,
      <<" ", "Q", "u", "I", "T", " ">>,
      <<"q", "u", "i", "t", " ", "x">> }

\* The texts a reasoning call can return.
ResponseTexts == { <<"O", "K">>, <<" ", "n", "o", " ">> }

-----------------------------------------------------------------------------
(* Entry points and their providers *)

Programs ==
    { "batak_ollama", "email_assistant", "calendar_assistant", "pdf_assistant",
      "pizza_assistant", "websearch_assistant", "email_client" }

GeminiPrograms ==
    { "email_assistant", "calendar_assistant", "pdf_assistant", "pizza_assistant",
      "websearch_assistant" }

EnvVars == { "GEMINI_API_KEY", "BRIGHT_DATA_API_KEY" }

\* The providers an entry point starts, in the order of its nested with-blocks.
Providers(p) ==
    CASE p = "batak_ollama" -> <<"pdf", "email", "calendar", "websearch">>
      [] p = "email_assistant" -> <<"email">>
      [] p = "calendar_assistant" -> <<"calendar">>
      [] p = "pdf_assistant" -> <<"pdf">>
      [] p = "pizza_assistant" -> <<"pizza">>
      [] p = "websearch_assistant" -> <<"websearch">>
      [] p = "email_client" -> <<"email">>

ProviderIds == { "pdf", "email", "calendar", "websearch", "pizza" }

\* The variables the __main__ block of an entry point checks for.
RequiredEnv(p) ==
    CASE p = "batak_ollama" -> { "BRIGHT_DATA_API_KEY" }
      [] p = "websearch_assistant" -> { "BRIGHT_DATA_API_KEY", "GEMINI_API_KEY" }
      [] p = "email_client" -> {}
      [] OTHER -> { "GEMINI_API_KEY" }

\* Whether the __main__ block reaches asyncio.run(main()) under environment e.
\* batak_ollama calls it after the if-block, outside any else.
RunsMain(p, e) ==
    IF p = "batak_ollama" THEN TRUE ELSE RequiredEnv(p) \subseteq e

\* A scoped resource: the stdio transport or the ClientSession of a provider.
Res(p, k) == [prov |-> p, kind |-> k]

\* The acquisition sequence of an entry point: transport, then session, per provider.
Acquisition(p) ==
    [i \in 1..(2 * Len(Providers(p))) |->
        Res(Providers(p)[(i + 1) \div 2], IF i % 2 = 1 THEN "transport" ELSE "session")]

\* Position of resource r in the acquisition sequence of entry point p.
Rank(p, r) ==
    LET k == CHOOSE i \in 1..Len(Providers(p)) : Providers(p)[i] = r.prov
    IN  IF r.kind = "transport" THEN 2 * k - 1 ELSE 2 * k

NProviders == Len(Providers(prog))

AllOpen == opened = Acquisition(prog)

SessionOpen(p) == \E i \in 1..Len(opened) : opened[i] = Res(p, "session")

-----------------------------------------------------------------------------
(* Conversation history and reasoning requests *)

SystemInstruction == <<"#system_instruction">>
SignatureText == <<"#signature_text">>
SearchPrefix == <<"#search_query">>
SearchSuffix == <<"#search_suffix">>

UserTurn(text) == [role |-> "user", parts |-> <<text>>]

\* Faulty variant: the answer is stored trimmed.
ModelTurnTrimmed(text) == [role |-> "model", parts |-> <<Strip(text)>>]

ModelTurn(text) == [role |-> "model", parts |-> <<text>>]

\* Faulty variant: the stored role is sent as it is.
RECURSIVE PartsToMessagesSameRole(_, _)
PartsToMessagesSameRole(role, parts) ==
    IF parts = <<>> THEN <<>>
    ELSE <<[role |-> role, content |-> Head(parts)]>>
         \o PartsToMessagesSameRole(role, Tail(parts))

\* One message per part of a turn; the role "model" is sent as "assistant".
RECURSIVE PartsToMessages(_, _)
PartsToMessages(role, parts) ==
    IF parts = <<>> THEN <<>>
    ELSE <<[role |-> IF role = "user" THEN "user" ELSE "assistant",
            content |-> Head(parts)]>>
         \o PartsToMessages(role, Tail(parts))

RECURSIVE build_prompt_from_history(_)
build_prompt_from_history(history) ==
    IF history = <<>> THEN <<>>
    ELSE PartsToMessages(Head(history).role, Head(history).parts)
         \o build_prompt_from_history(Tail(history))

NoRequest == [model |-> "none", system |-> <<>>, messages |-> <<>>, tools |-> {}]

\* Faulty variant: only the newest turn is sent, as the other assistants do.
OllamaRequestLastOnly(history) ==
    [model |-> "gpt-oss-20b",
     system |-> <<>>,
     messages |-> <<[role |-> "system", content |-> SystemInstruction]>>
                  \o build_prompt_from_history(SubSeq(history, Len(history), Len(history))),
     tools |-> {}]

\* The ollama.chat call of process_user_request: system message plus the history.
OllamaRequest(history) ==
    [model |-> "gpt-oss-20b",
     system |-> <<>>,
     messages |-> <<[role |-> "system", content |-> SystemInstruction]>>
                  \o build_prompt_from_history(history),
     tools |-> {}]

\* The contents argument each single-provider assistant builds from the utterance.
GeminiContents(p, u) ==
    CASE p = "email_assistant" -> Strip(u) \o SignatureText
      [] p = "websearch_assistant" -> SearchPrefix \o u \o SearchSuffix
      [] p = "pizza_assistant" -> u
      [] OTHER -> Strip(u)

\* The generate_content call of a single-provider assistant.
GeminiRequest(p, u) ==
    [model |-> "gemini-2.5-flash",
     system |-> SystemInstruction,
     messages |-> <<[role |-> "user", content |-> GeminiContents(p, u)]>>,
     tools |-> { Providers(p)[1] }]

NoResponse == [kind |-> "none", text |-> <<>>]
TextResponse(t) == [kind |-> "text", text |-> t]
ErrorResponse == [kind |-> "error", text |-> <<"#error_msg">>]

-----------------------------------------------------------------------------
(* Initial state *)

Init ==
    /\ prog \in Programs
    /\ env \in SUBSET EnvVars
    /\ pc = "entry"
    /\ ollama = "unprobed"
    /\ opened = <<>>
    /\ closed = <<>>
    /\ stage = [p \in ProviderIds |-> "none"]
    /\ exc = FALSE
    /\ conversation_history = <<>>
    /\ request = NoRequest
    /\ response = NoResponse
    /\ printed = <<>>
    /\ line = <<>>
    /\ accepted = <<>>
    /\ inputsRead = 0
    /\ calls = 0
    /\ toolCalls = [p \in ProviderIds |-> 0]
    /\ mainRan = FALSE
    /\ startFailed = FALSE
    /\ quitRead = FALSE
    /\ outstanding = 0
    /\ worker = "idle"
    /\ blocked = FALSE
    /\ ioServiced = FALSE
    /\ loopCalls = 0
    /\ returned = 0

-----------------------------------------------------------------------------
(* Entry point and the part of main() before the with-blocks *)

\* The __main__ block: report missing variables, then run main() or not.
EntryPoint ==
    /\ pc = "entry"
    /\ printed' = IF RequiredEnv(prog) \subseteq env THEN printed
                   ELSE Append(printed, "missing_env")
    /\ IF RunsMain(prog, env)
       THEN pc' = "main" /\ mainRan' = TRUE
       ELSE pc' = "exit" /\ UNCHANGED mainRan
    /\ UNCHANGED <<prog, env, ollama, opened, closed, stage, exc, conversation_history,
                   request, response, line, accepted, inputsRead, calls, toolCalls,
                   startFailed, quitRead>>
    /\ UNCHANGED <<outstanding, worker, blocked, ioServiced, loopCalls>>
    /\ UNCHANGED returned

\* Faulty variant: a failed probe is reported and startup goes on.
ProbeFailureIgnored == pc' = "starting"

\* The except branch of the probe ends with `return`.
ProbeFailed == pc' = "exit"

\* main() up to its try: batak_ollama probes the backend (an exception there returns
\* from main, a missing model only warns) and then builds the server parameters.
\* With BRIGHT_DATA_API_KEY unset the websearch env holds API_TOKEN = None, which
\* the parameter type may reject: the constructor is outside the try, so a rejection
\* leaves main() as an uncaught exception.
MainPrologue ==
    /\ pc = "main"
    /\ IF prog = "batak_ollama"
       THEN \E probe \in { "down", "ready", "model_missing" } :
              /\ ollama' = probe
              /\ IF probe = "down"
                 THEN /\ printed' = Append(printed, "ollama_unreachable")
                      /\ ProbeFailed
                 ELSE /\ printed' = IF probe = "model_missing"
                                      THEN Append(printed, "model_not_found_warning")
                                      ELSE printed
                      /\ IF "BRIGHT_DATA_API_KEY" \in env
                         THEN pc' = "starting"
                         ELSE pc' \in { "starting", "crashed" }
       ELSE /\ pc' = "starting"
            /\ UNCHANGED <<ollama, printed>>
    /\ UNCHANGED <<prog, env, opened, closed, stage, exc, conversation_history,
                   request, response, line, accepted, inputsRead, calls, toolCalls,
                   mainRan, startFailed, quitRead>>
    /\ UNCHANGED <<outstanding, worker, blocked, ioServiced, loopCalls>>
    /\ UNCHANGED returned

-----------------------------------------------------------------------------
(* Startup: the nested with-blocks *)

\* The provider whose transport or session is acquired next.
Opening == Providers(prog)[(Len(opened) \div 2) + 1]

\* The provider of the innermost open resource.
Innermost == opened[Len(opened)].prov

\* An exception raised inside the with-blocks propagates out of them.
Raise ==
    /\ exc' = TRUE
    /\ pc' = "unwinding"

\* Faulty variant: a provider that fails to start is skipped and the loop runs without it.
StartupFailureTolerated ==
    /\ startFailed' = TRUE
    /\ pc' = "await_input"
    /\ UNCHANGED exc

\* Faulty variant: the step that failed is tried again.
StartupFailureRetried ==
    /\ startFailed' = TRUE
    /\ pc' = "starting"
    /\ UNCHANGED exc

\* A provider fails to launch or to handshake: nothing inside the with-blocks
\* catches it.
StartupFailure ==
    /\ startFailed' = TRUE
    /\ Raise

\* Where control goes once the innermost provider has listed its tools.
AfterStartup == IF prog = "email_client" THEN "call_tool" ELSE "await_input"

\* Faulty variant: the next provider is launched without waiting for the previous one.
PreviousStarted == TRUE

\* The next with-statement is reached only after the list_tools of the provider
\* before it has returned.
PreviousReady == Len(opened) > 0 => stage[Innermost] = "listed"

\* async with stdio_client(params) as transport
OpenTransport ==
    /\ pc = "starting"
    /\ Len(opened) % 2 = 0
    /\ Len(opened) < 2 * NProviders
    /\ PreviousReady
    /\ \E ok \in BOOLEAN :
         IF ok
         THEN /\ opened' = Append(opened, Res(Opening, "transport"))
              /\ UNCHANGED <<exc, pc, startFailed>>
         ELSE /\ StartupFailure
              /\ UNCHANGED opened
    /\ UNCHANGED <<prog, env, ollama, closed, stage, conversation_history, request,
                   response, printed, line, accepted, inputsRead, calls, toolCalls,
                   mainRan, quitRead>>
    /\ UNCHANGED <<outstanding, worker, blocked, ioServiced, loopCalls>>
    /\ UNCHANGED returned

\* async with ClientSession(read, write) as session
OpenSession ==
    /\ pc = "starting"
    /\ Len(opened) % 2 = 1
    /\ \E ok \in BOOLEAN :
         IF ok
         THEN /\ opened' = Append(opened, Res(Opening, "session"))
              /\ UNCHANGED <<exc, pc, startFailed>>
         ELSE /\ StartupFailure
              /\ UNCHANGED opened
    /\ UNCHANGED <<prog, env, ollama, closed, stage, conversation_history, request,
                   response, printed, line, accepted, inputsRead, calls, toolCalls,
                   mainRan, quitRead>>
    /\ UNCHANGED <<outstanding, worker, blocked, ioServiced, loopCalls>>
    /\ UNCHANGED returned

\* await session.initialize()
Initialize ==
    /\ pc = "starting"
    /\ Len(opened) % 2 = 0 /\ Len(opened) > 0
    /\ stage[Innermost] = "none"
    /\ \E ok \in BOOLEAN :
         IF ok
         THEN /\ stage' = [stage EXCEPT ![Innermost] = "initialized"]
              /\ UNCHANGED <<exc, pc, startFailed>>
         ELSE /\ StartupFailure
              /\ UNCHANGED stage
    /\ UNCHANGED <<prog, env, ollama, opened, closed, conversation_history, request,
                   response, printed, line, accepted, inputsRead, calls, toolCalls,
                   mainRan, quitRead>>
    /\ UNCHANGED <<outstanding, worker, blocked, ioServiced, loopCalls>>
    /\ UNCHANGED returned

\* Faulty variant: a failing list_tools is ignored, its result being used for display only.
ListToolsUnchecked ==
    /\ pc = "starting"
    /\ Len(opened) % 2 = 0 /\ Len(opened) > 0
    /\ stage[Innermost] = "initialized"
    /\ \E ok \in BOOLEAN :
         /\ stage' = [stage EXCEPT ![Innermost] = IF ok THEN "listed" ELSE @]
         /\ pc' = IF Len(opened) = 2 * NProviders THEN AfterStartup ELSE "starting"
         /\ UNCHANGED <<exc, startFailed>>
    /\ UNCHANGED <<prog, env, ollama, opened, closed, conversation_history, request,
                   response, printed, line, accepted, inputsRead, calls, toolCalls,
                   mainRan, quitRead>>
    /\ blocked' = (pc' = "await_input")
    /\ UNCHANGED <<outstanding, worker, ioServiced, loopCalls>>
    /\ UNCHANGED returned

\* tools = await session.list_tools(); after the innermost one the loop begins.
ListTools ==
    /\ pc = "starting"
    /\ Len(opened) % 2 = 0 /\ Len(opened) > 0
    /\ stage[Innermost] = "initialized"
    /\ \E ok \in BOOLEAN :
         IF ok
         THEN /\ stage' = [stage EXCEPT ![Innermost] = "listed"]
              /\ pc' = IF Len(opened) = 2 * NProviders THEN AfterStartup ELSE "starting"
              /\ UNCHANGED <<exc, startFailed>>
         ELSE /\ StartupFailure
              /\ UNCHANGED stage
    /\ UNCHANGED <<prog, env, ollama, opened, closed, conversation_history, request,
                   response, printed, line, accepted, inputsRead, calls, toolCalls,
                   mainRan, quitRead>>
    /\ blocked' = (pc' = "await_input")
    /\ UNCHANGED <<outstanding, worker, ioServiced, loopCalls>>
    /\ UNCHANGED returned

-----------------------------------------------------------------------------
(* Teardown: leaving the with-blocks *)

\* Faulty variant: the resources are released oldest first.
OldestOpen(stack) == 1

\* The open resource whose with-block is left next: the innermost one.
InnermostOpen(stack) == Len(stack)

Without(stack, i) == SubSeq(stack, 1, i - 1) \o SubSeq(stack, i + 1, Len(stack))

\* __aexit__ of the innermost open with-block; it may itself raise.
CloseInnermost ==
    /\ pc = "unwinding"
    /\ opened # <<>>
    /\ closed' = Append(closed, opened[InnermostOpen(opened)])
    /\ opened' = Without(opened, InnermostOpen(opened))
    /\ \E raises \in BOOLEAN : exc' = (exc \/ raises)
    /\ UNCHANGED <<prog, env, pc, ollama, stage, conversation_history, request,
                   response, printed, line, accepted, inputsRead, calls, toolCalls,
                   mainRan, startFailed, quitRead>>
    /\ UNCHANGED <<outstanding, worker, blocked, ioServiced, loopCalls>>
    /\ UNCHANGED returned

\* The end of the try statement: `except Exception` reports what propagated.
LeaveTry ==
    /\ pc = "unwinding"
    /\ opened = <<>>
    /\ printed' = IF exc THEN Append(printed, "outer_handler") ELSE printed
    /\ exc' = FALSE
    /\ pc' = "exit"
    /\ UNCHANGED <<prog, env, ollama, opened, closed, stage, conversation_history,
                   request, response, line, accepted, inputsRead, calls, toolCalls,
                   mainRan, startFailed, quitRead>>
    /\ UNCHANGED <<outstanding, worker, blocked, ioServiced, loopCalls>>
    /\ UNCHANGED returned

-----------------------------------------------------------------------------
(* The interactive loop *)

\* Faulty variant: the line is used as typed.
Untrimmed(l) == l

\* user_request = input(...).strip()
UserRequest(l) == Strip(l)

\* Faulty variant: the sentinel is compared without lower-casing.
IsQuitExact(u) == u = QuitWord

\* user_request.lower() == "quit", on the stripped line
IsQuit(u) == Lower(u) = QuitWord

\* Faulty variant: the sentinel ends the process at once, inside the with-blocks.
BreakExits == pc' = "exit"

\* `break`: control leaves the while loop and then the with-blocks it is nested in.
Break == pc' = "unwinding"

\* Faulty variant: input() is read inside the per-request try, whose handler prints
\* and goes round the loop again.
InputErrorCaught ==
    /\ pc' = "await_input"
    /\ UNCHANGED exc

\* input() is called outside the per-request try: what it raises is not caught
\* inside the loop.
InputErrorPropagates == Raise

\* input() raises (end of file): the exception leaves the loop and the with-blocks.
InputRaises ==
    /\ pc = "await_input"
    /\ InputErrorPropagates
    /\ UNCHANGED <<prog, env, ollama, opened, closed, stage, conversation_history,
                   request, response, printed, line, accepted, inputsRead, calls,
                   toolCalls, mainRan, startFailed, quitRead>>
    /\ blocked' = FALSE
    /\ UNCHANGED <<outstanding, worker, ioServiced, loopCalls>>
    /\ UNCHANGED returned

\* Faulty variant: the call is started as a task that the loop does not wait for.
AwaitDetached ==
    /\ outstanding' = outstanding + 1
    /\ worker' = IF prog = "batak_ollama" THEN "running" ELSE "idle"
    /\ blocked' = TRUE
    /\ pc' = "await_input"

\* Faulty variant: ollama.chat is called directly on the event-loop thread.
AwaitBlocking ==
    /\ outstanding' = outstanding + 1
    /\ worker' = "idle"
    /\ blocked' = (prog = "batak_ollama")
    /\ pc' = "processing"

\* The await of the reasoning call: batak_ollama hands the blocking ollama.chat to
\* a worker thread (asyncio.to_thread), the others await the asynchronous client;
\* either way the control flow is suspended and the event loop is free.
AwaitReasoning ==
    /\ outstanding' = outstanding + 1
    /\ worker' = IF prog = "batak_ollama" THEN "running" ELSE "idle"
    /\ blocked' = FALSE
    /\ pc' = "processing"

\* Faulty variant: the user turn is put at the front of the history.
IssueRequestPrepends(u) ==
    /\ accepted' = Append(accepted, u)
    /\ calls' = calls + 1
    /\ IF prog = "batak_ollama"
       THEN /\ conversation_history' = <<UserTurn(Strip(u))>> \o conversation_history
            /\ request' = OllamaRequest(conversation_history')
       ELSE /\ request' = GeminiRequest(prog, u)
            /\ UNCHANGED conversation_history
    /\ UNCHANGED loopCalls
    /\ AwaitReasoning

\* Faulty variant: the history is started afresh for every utterance.
IssueRequestStateless(u) ==
    /\ accepted' = Append(accepted, u)
    /\ calls' = calls + 1
    /\ IF prog = "batak_ollama"
       THEN /\ conversation_history' = <<UserTurn(Strip(u))>>
            /\ request' = OllamaRequest(conversation_history')
       ELSE /\ request' = GeminiRequest(prog, u)
            /\ UNCHANGED conversation_history
    /\ UNCHANGED loopCalls
    /\ AwaitReasoning

\* Faulty variant: the request function dispatches a tool itself before reasoning.
IssueRequestDispatches(u) ==
    /\ accepted' = Append(accepted, u)
    /\ calls' = calls + 1
    /\ IF prog = "batak_ollama"
       THEN /\ conversation_history' = Append(conversation_history, UserTurn(Strip(u)))
            /\ request' = OllamaRequest(conversation_history')
       ELSE /\ request' = GeminiRequest(prog, u)
            /\ UNCHANGED conversation_history
    /\ loopCalls' = loopCalls + 1
    /\ AwaitReasoning

\* Faulty variant: the request is built before the user turn is appended.
IssueRequestAppendsLate(u) ==
    /\ accepted' = Append(accepted, u)
    /\ calls' = calls + 1
    /\ IF prog = "batak_ollama"
       THEN /\ conversation_history' = Append(conversation_history, UserTurn(Strip(u)))
            /\ request' = OllamaRequest(conversation_history)
       ELSE /\ request' = GeminiRequest(prog, u)
            /\ UNCHANGED conversation_history
    /\ UNCHANGED loopCalls
    /\ AwaitReasoning

\* Faulty variant: the user turn is sent but not stored.
IssueRequestDropsUserTurn(u) ==
    /\ accepted' = Append(accepted, u)
    /\ calls' = calls + 1
    /\ IF prog = "batak_ollama"
       THEN /\ UNCHANGED conversation_history
            /\ request' = OllamaRequest(Append(conversation_history, UserTurn(Strip(u))))
       ELSE /\ request' = GeminiRequest(prog, u)
            /\ UNCHANGED conversation_history
    /\ UNCHANGED loopCalls
    /\ AwaitReasoning

\* The statements of the request function up to its await: batak_ollama appends the
\* user turn and sends the whole history; the others send the utterance alone.
\* No statement of any request function calls a tool.
IssueRequest(u) ==
    /\ accepted' = Append(accepted, u)
    /\ calls' = calls + 1
    /\ IF prog = "batak_ollama"
       THEN /\ conversation_history' = Append(conversation_history, UserTurn(Strip(u)))
            /\ request' = OllamaRequest(conversation_history')
       ELSE /\ request' = GeminiRequest(prog, u)
            /\ UNCHANGED conversation_history
    /\ UNCHANGED loopCalls
    /\ AwaitReasoning

\* One pass of the loop body up to the await of the request function.
ReadInput ==
    /\ pc = "await_input"
    /\ \E l \in InputLines :
         /\ IsQuit(UserRequest(l)) \/ inputsRead < MaxInputs
         /\ line' = l
         /\ inputsRead' = inputsRead + 1
         /\ IF IsQuit(UserRequest(l))
            THEN /\ quitRead' = TRUE
                 /\ Break
                 /\ printed' = <<"goodbye">>
                 /\ blocked' = FALSE
                 /\ UNCHANGED <<conversation_history, request, accepted, calls,
                                outstanding, worker, loopCalls>>
            ELSE IF UserRequest(l) = <<>>
            THEN /\ printed' = <<"invalid_request">>
                 /\ UNCHANGED <<pc, conversation_history, request, accepted, calls,
                                quitRead, outstanding, worker, blocked, loopCalls>>
            ELSE /\ IssueRequest(UserRequest(l))
                 /\ printed' = <<"working">>
                 /\ UNCHANGED quitRead
    /\ UNCHANGED <<prog, env, ollama, opened, closed, stage, exc, response, toolCalls,
                   mainRan, startFailed>>
    /\ ioServiced' = FALSE
    /\ UNCHANGED returned

\* Faulty variant: the call is answered whether or not the model is installed.
ModelAssumed == TRUE

\* ollama.chat(model='gpt-oss-20b') can answer only if the backend has that model;
\* the probe of main() has read the backend's model list.
ModelAvailable == prog = "batak_ollama" => ollama = "ready"

\* The reasoning call returns text: batak_ollama stores it as a model turn; the
\* request function returns it and the loop prints it.
ReasoningReturns ==
    /\ pc = "processing"
    /\ ModelAvailable
    /\ \E t \in ResponseTexts :
         /\ response' = TextResponse(t)
         /\ conversation_history' =
              IF prog = "batak_ollama"
              THEN Append(conversation_history, ModelTurn(t))
              ELSE conversation_history
    /\ printed' = Append(printed, "response")
    /\ pc' = "await_input"
    /\ UNCHANGED <<prog, env, ollama, opened, closed, stage, exc, request, line,
                   accepted, inputsRead, calls, toolCalls, mainRan, startFailed,
                   quitRead>>
    /\ outstanding' = outstanding - 1
    /\ worker' = "idle"
    /\ blocked' = (pc' = "await_input")
    /\ ioServiced' = FALSE
    /\ UNCHANGED loopCalls
    /\ returned' = returned + 1

\* Faulty variant: the failure of a reasoning call is not caught inside the loop.
ErrorEscapes ==
    /\ Raise
    /\ UNCHANGED <<opened, closed>>

\* Faulty variant: the handler of a failed request drops the innermost connection.
ErrorDropsConnection ==
    /\ pc' = "await_input"
    /\ opened' = SubSeq(opened, 1, Len(opened) - 1)
    /\ closed' = Append(closed, opened[Len(opened)])
    /\ UNCHANGED exc

\* Both handlers of a failed request (process_user_request's and the loop's) print
\* and fall through to the next pass of the loop, inside all the with-blocks.
ErrorCaught ==
    /\ pc' = "await_input"
    /\ UNCHANGED <<exc, opened, closed>>

\* Faulty variant: the error text is stored as the answer.
ErrorStoredAsTurn ==
    conversation_history' =
        IF prog = "batak_ollama"
        THEN Append(conversation_history, ModelTurn(ErrorResponse.text))
        ELSE conversation_history

\* Faulty variant: the user turn of the failed utterance is taken back.
ErrorRollsBack ==
    conversation_history' =
        IF prog = "batak_ollama"
        THEN SubSeq(conversation_history, 1, Len(conversation_history) - 1)
        ELSE conversation_history

\* The except branch returns the error text without appending it.
ErrorLeavesHistory == UNCHANGED conversation_history

\* Faulty variant: the handler issues the call a second time.
RetryOnce == calls' = calls + 1

\* Neither handler of a failed request calls the reasoning backend again.
NoRetry == UNCHANGED calls

\* The reasoning call raises: process_user_request of batak_ollama catches it and
\* returns the error text as the response; elsewhere the loop's handler prints it.
ReasoningFails ==
    /\ pc = "processing"
    /\ IF prog = "batak_ollama"
       THEN /\ printed' = printed \o <<"ollama_call_error", "response">>
            /\ response' = ErrorResponse
       ELSE /\ printed' = Append(printed, "request_error")
            /\ UNCHANGED response
    /\ ErrorCaught
    /\ ErrorLeavesHistory
    /\ NoRetry
    /\ UNCHANGED <<prog, env, ollama, stage, request, line, accepted, inputsRead,
                   toolCalls, mainRan, startFailed, quitRead>>
    /\ outstanding' = outstanding - 1
    /\ worker' = "idle"
    /\ blocked' = (pc' = "await_input")
    /\ ioServiced' = FALSE
    /\ UNCHANGED loopCalls
    /\ UNCHANGED returned

\* tools=[session]: while the call is outstanding the reasoning provider may invoke
\* a tool of the session it was handed. ollama.chat is handed no tools.
SdkToolCall ==
    /\ pc = "processing"
    /\ \E p \in request.tools :
         /\ toolCalls[p] < MaxToolCalls
         /\ toolCalls' = [toolCalls EXCEPT ![p] = @ + 1]
    /\ UNCHANGED <<prog, env, pc, ollama, opened, closed, stage, exc,
                   conversation_history, request, response, printed, line, accepted,
                   inputsRead, calls, mainRan, startFailed, quitRead>>
    /\ UNCHANGED <<outstanding, worker, blocked, ioServiced, loopCalls>>
    /\ UNCHANGED returned

\* Faulty variant: what arrives from a provider during the call is stored as a turn.
ServiceProviderIORecorded ==
    /\ pc = "processing"
    /\ ~blocked
    /\ ~ioServiced
    /\ opened # <<>>
    /\ ioServiced' = TRUE
    /\ conversation_history' =
         Append(conversation_history, [role |-> "tool", parts |-> << <<"#traffic">> >>])
    /\ UNCHANGED <<prog, env, pc, ollama, opened, closed, stage, exc, request,
                   response, printed, line, accepted, inputsRead, calls, toolCalls,
                   mainRan, startFailed, quitRead, outstanding, worker, blocked,
                   loopCalls>>
    /\ UNCHANGED returned

\* While the control flow is suspended at the await of the reasoning call and the
\* event-loop thread is not blocked, the loop services the providers' streams.
ServiceProviderIO ==
    /\ pc = "processing"
    /\ ~blocked
    /\ ~ioServiced
    /\ opened # <<>>
    /\ ioServiced' = TRUE
    /\ UNCHANGED <<prog, env, pc, ollama, opened, closed, stage, exc,
                   conversation_history, request, response, printed, line, accepted,
                   inputsRead, calls, toolCalls, mainRan, startFailed, quitRead,
                   outstanding, worker, blocked, loopCalls>>
    /\ UNCHANGED returned

\* email/client.py: the single call_tool("send_email") and the end of the with-body.
ClientCallTool ==
    /\ pc = "call_tool"
    /\ toolCalls' = [toolCalls EXCEPT ![Innermost] = @ + 1]
    /\ pc' = "unwinding"
    /\ \E ok \in BOOLEAN : exc' = ~ok
    /\ UNCHANGED <<prog, env, ollama, opened, closed, stage, conversation_history,
                   request, response, printed, line, accepted, inputsRead, calls,
                   mainRan, startFailed, quitRead>>
    /\ loopCalls' = loopCalls + 1
    /\ UNCHANGED <<outstanding, worker, blocked, ioServiced>>
    /\ UNCHANGED returned

-----------------------------------------------------------------------------

Next ==
    \/ EntryPoint
    \/ MainPrologue
    \/ OpenTransport
    \/ OpenSession
    \/ Initialize
    \/ ListTools
    \/ InputRaises
    \/ ReadInput
    \/ ReasoningReturns
    \/ ReasoningFails
    \/ SdkToolCall
    \/ ServiceProviderIO
    \/ ClientCallTool
    \/ CloseInnermost
    \/ LeaveTry

Spec == Init /\ [][Next]_vars

-----------------------------------------------------------------------------
(* Properties *)

IsPrefix(a, b) == Len(a) <= Len(b) /\ SubSeq(b, 1, Len(a)) = a

InLoop == pc \in { "await_input", "processing" }

UserTurns(history) == SelectSeq(history, LAMBDA t : t.role = "user")

ErrorPrinted(out) ==
    \E i \in 1..Len(out) : out[i] \in { "ollama_call_error", "request_error" }

\* C1: connections are torn down in strict reverse order of opening, on quit and on
\* any exception alike: whatever is still open was opened before everything that
\* has been closed, and the closing order is the opening order reversed (so each
\* ClientSession closes before its transport).
C1_ReverseTeardown ==
    LET openRank == [j \in 1..Len(opened) |-> Rank(prog, opened[j])]
        closeRank == [i \in 1..Len(closed) |-> Rank(prog, closed[i])]
    IN  /\ \A i \in 1..Len(closed) : \A j \in 1..Len(opened) :
             openRank[j] < closeRank[i]
        /\ \A i \in 1..Len(closed) : \A j \in 1..Len(closed) :
             i < j => closeRank[i] > closeRank[j]

\* The unified assistant has closed all eight resources after the sentinel.
C1_Witness ==
    /\ prog = "batak_ollama"
    /\ quitRead
    /\ pc = "exit"
    /\ Len(closed) = 8

\* C2: once a provider has failed to launch, initialize or list its tools, the loop
\* is never entered, no input is read, no reasoning call is made, and when main()
\* ends no connection is open.
C2_StartupFailureIsFatal ==
    startFailed =>
        /\ pc \in { "unwinding", "exit" }
        /\ inputsRead = 0
        /\ calls = 0
        /\ pc = "exit" => opened = <<>>

\* The websearch provider failed to launch after the other three were ready; the
\* six resources opened before it are closed.
C2_Witness ==
    /\ prog = "batak_ollama"
    /\ startFailed
    /\ pc = "exit"
    /\ Len(closed) = 6
    /\ opened = <<>>

\* C3 (as claimed): with a required environment variable absent, main() is never
\* run, no provider is started and the loop is never entered.
C3_MissingEnvIsFatal ==
    ~(RequiredEnv(prog) \subseteq env) =>
        /\ ~mainRan
        /\ opened = <<>> /\ closed = <<>>
        /\ ~InLoop

\* C4: whenever an outstanding reasoning call ends, by a result or by an error, the
\* loop is back at awaiting input with every connection still open and no exception
\* propagating, and what ended it was printed; so the loop is left only from
\* awaiting input, never because a request failed.
C4_ReasoningErrorsRecoverable ==
    [][(pc = "processing" /\ pc' # "processing") =>
          /\ pc' = "await_input"
          /\ ~exc'
          /\ opened' = opened /\ closed' = closed
          /\ opened' = Acquisition(prog)
          /\ ErrorPrinted(printed') \/ printed'[Len(printed')] = "response"]_vars

\* Two reasoning calls in a row have failed and the unified assistant awaits input
\* with all connections open.
C4_Witness ==
    /\ prog = "batak_ollama"
    /\ pc = "await_input"
    /\ calls = 2
    /\ Len(conversation_history) = 2
    /\ ErrorPrinted(printed)
    /\ AllOpen

\* C5: after N accepted utterances the history of the unified assistant holds at
\* least N turns, and its user turns are those utterances in the order entered.
C5_UserTurnsInOrder ==
    prog = "batak_ollama" =>
        /\ Len(conversation_history) >= Len(accepted)
        /\ UserTurns(conversation_history)
             = [i \in 1..Len(accepted) |-> [role |-> "user", parts |-> <<accepted[i]>>]]

\* Two different utterances were accepted and stored as consecutive user turns.
C5_Witness ==
    /\ prog = "batak_ollama"
    /\ Len(accepted) = 2
    /\ accepted[1] # accepted[2]
    /\ Len(conversation_history) = 3
    /\ conversation_history[1].role = "user"
    /\ conversation_history[2].role = "user"

\* C6: the history is append-only: every step leaves the previous history as a
\* prefix of the new one.
C6_AppendOnly ==
    [][IsPrefix(conversation_history, conversation_history')]_vars

\* The history has grown over two utterances.
C6_Witness ==
    /\ prog = "batak_ollama"
    /\ Len(conversation_history) = 4
    /\ pc = "await_input"

\* C7: accepting an utterance appends exactly its user turn; when the reasoning call
\* then returns text T, exactly one model turn holding T is appended right after
\* that user turn, and T is the value returned to the loop.
C7_OneAssistantTurn ==
    [][prog = "batak_ollama" =>
        /\ (pc = "await_input" /\ pc' = "processing") =>
              conversation_history'
                = Append(conversation_history,
                         [role |-> "user", parts |-> <<accepted'[Len(accepted')]>>])
        /\ (pc = "processing" /\ pc' = "await_input" /\ ~ErrorPrinted(printed')) =>
              /\ response'.kind = "text"
              /\ conversation_history'
                   = Append(conversation_history,
                            [role |-> "model", parts |-> <<response'.text>>])
              /\ conversation_history[Len(conversation_history)]
                   = [role |-> "user", parts |-> <<accepted[Len(accepted)]>>]]_vars

\* "hi" was answered with "OK": one user turn, one model turn.
C7_Witness ==
    /\ prog = "batak_ollama"
    /\ pc = "await_input"
    /\ response = TextResponse(<<"O", "K">>)
    /\ conversation_history
         = << [role |-> "user", parts |-> << <<"h", "i">> >>],
              [role |-> "model", parts |-> << <<"O", "K">> >>] >>

\* C8: a provider has completed initialize and then list_tools before the loop
\* awaits its first input and before it receives any call_tool (the one-shot email
\* client included); list_tools completes only after initialize has.
C8_HandshakeBeforeUse ==
    /\ [](\A i \in 1..NProviders :
            /\ (InLoop \/ inputsRead > 0) => stage[Providers(prog)[i]] = "listed"
            /\ toolCalls[Providers(prog)[i]] > 0 => stage[Providers(prog)[i]] = "listed")
    /\ [][\A p \in ProviderIds :
            (stage[p] # "listed" /\ stage'[p] = "listed") => stage[p] = "initialized"]_vars

\* The email client has issued call_tool("send_email") after the handshake.
C8_Witness ==
    /\ prog = "email_client"
    /\ toolCalls["email"] = 1
    /\ stage["email"] = "listed"

\* C9: while the unified assistant is in its loop, all four sessions and their
\* transports are open and none has been closed.
C9_ConnectionsHeldOpen ==
    (prog = "batak_ollama" /\ InLoop) =>
        /\ \A i \in 1..4 : SessionOpen(Providers(prog)[i])
        /\ opened = Acquisition(prog)
        /\ closed = <<>>

\* The unified assistant awaits input after a failed utterance.
C9_Witness ==
    /\ prog = "batak_ollama"
    /\ pc = "await_input"
    /\ response = ErrorResponse
    /\ \A p \in { "pdf", "email", "calendar", "websearch" } : SessionOpen(p)

\* C10: a line that is "quit" after trimming and lower-casing ends the loop without
\* being stored or sent; after it no input is read, no reasoning call is issued and
\* the history does not change; no user turn ever holds the sentinel.
C10_QuitEndsSession ==
    /\ [][(inputsRead' # inputsRead /\ Lower(Strip(line')) = QuitWord) =>
            /\ quitRead'
            /\ pc' = "unwinding"
            /\ calls' = calls
            /\ accepted' = accepted
            /\ conversation_history' = conversation_history]_vars
    /\ [][quitRead =>
            /\ ~InLoop'
            /\ inputsRead' = inputsRead
            /\ calls' = calls
            /\ conversation_history' = conversation_history]_vars
    /\ [](\A i \in 1..Len(conversation_history) :
            conversation_history[i].role = "user"
                => Lower(conversation_history[i].parts[1]) # QuitWord)

\* " QuIT " ended a session of the unified assistant that had stored turns.
C10_Witness ==
    /\ prog = "batak_ollama"
    /\ quitRead
    /\ line = <<" ", "Q", "u", "I", "T", " ">>
    /\ pc = "exit"
    /\ Len(conversation_history) = 2


ModelTurns(history) == SelectSeq(history, LAMBDA t : t.role = "model")

UserMessages(msgs) == SelectSeq(msgs, LAMBDA m : m.role = "user")

\* text holds u as a contiguous part
Contains(text, u) ==
    \E k \in 0..(Len(text) - Len(u)) : SubSeq(text, k + 1, k + Len(u)) = u

\* C11: a line that is empty after trimming issues no reasoning call, stores and
\* sends nothing, changes no connection and leaves the loop awaiting input; every
\* other line that is not the sentinel is passed, trimmed, to exactly one call of
\* the request function.
C11_EmptyLineIgnored ==
    [][inputsRead' # inputsRead =>
        /\ Strip(line') = <<>> =>
              /\ pc' = "await_input"
              /\ calls' = calls
              /\ accepted' = accepted
              /\ request' = request
              /\ conversation_history' = conversation_history
              /\ opened' = opened /\ closed' = closed
        /\ (Strip(line') # <<>> /\ Lower(Strip(line')) # QuitWord) =>
              /\ calls' = calls + 1
              /\ accepted' = Append(accepted, Strip(line'))]_vars

\* A blank line was read after an answered utterance and changed nothing.
C11_Witness ==
    /\ prog = "batak_ollama"
    /\ line = <<" ">>
    /\ printed = <<"invalid_request">>
    /\ pc = "await_input"
    /\ calls = 1
    /\ Len(conversation_history) = 2

\* C12: the request of the unified assistant is the system instruction followed by
\* one message per stored turn, in stored order and with the same content, the
\* user turn just appended being the last.
C12_RequestCarriesHistory ==
    (prog = "batak_ollama" /\ pc = "processing") =>
        LET m == request.messages
        IN  /\ Len(m) = Len(conversation_history) + 1
            /\ m[1] = [role |-> "system", content |-> <<"#system_instruction">>]
            /\ \A i \in 1..Len(conversation_history) :
                 /\ m[i + 1].content = conversation_history[i].parts[1]
                 /\ m[i + 1].role = IF conversation_history[i].role = "user"
                                    THEN "user" ELSE "assistant"
            /\ m[Len(m)].content = accepted[Len(accepted)]

\* The second request carries the first utterance, its answer and the new utterance.
C12_Witness ==
    /\ prog = "batak_ollama"
    /\ pc = "processing"
    /\ calls = 2
    /\ Len(request.messages) = 4
    /\ request.messages[3].role = "assistant"

\* C13 (as claimed): every reasoning call is handed the tool capabilities of every
\* connected provider.
C13_ToolsHandedToReasoning ==
    pc = "processing" =>
        request.tools = { Providers(prog)[i] : i \in 1..NProviders }

\* C14 (as claimed): in every interactive assistant the request for the n-th
\* utterance carries the earlier utterances of the session.
C14_StateAccumulates ==
    pc = "processing" =>
        LET um == UserMessages(request.messages)
        IN  /\ Len(um) >= Len(accepted)
            /\ \A i \in 1..Len(accepted) : Contains(um[i].content, accepted[i])

\* C15: the code of an interactive assistant never issues call_tool; once the loop
\* runs it sends no initialize or list_tools either, tool calls being made only by
\* the reasoning provider on the session it was handed.
C15_LoopNeverDispatches ==
    /\ [](prog # "email_client" => loopCalls = 0)
    /\ [][InLoop => (stage' = stage /\ loopCalls' = loopCalls)]_vars

\* The reasoning provider called a pizza tool during a request; the loop did not.
C15_Witness ==
    /\ prog = "pizza_assistant"
    /\ pc = "await_input"
    /\ toolCalls["pizza"] = 1
    /\ response.kind = "text"
    /\ loopCalls = 0

\* C16: every stored turn is a user turn holding an accepted, trimmed utterance or
\* a model turn holding a text the reasoning step returned; no system turn, no tool
\* traffic and no error text is stored.
C16_OnlyExchangesStored ==
    \A i \in 1..Len(conversation_history) :
        LET t == conversation_history[i]
        IN  /\ Len(t.parts) = 1
            /\ t.parts[1] # <<"#error_msg">>
            /\ \/ /\ t.role = "user"
                  /\ t.parts[1] # <<>>
                  /\ Strip(t.parts[1]) = t.parts[1]
                  /\ \E k \in 1..Len(accepted) : accepted[k] = t.parts[1]
               \/ /\ t.role = "model"
                  /\ t.parts[1] \in ResponseTexts

\* One utterance failed and one was answered: three turns, the error text in none.
C16_Witness ==
    /\ prog = "batak_ollama"
    /\ pc = "await_input"
    /\ response = ErrorResponse
    /\ calls = 2
    /\ Len(conversation_history) = 3

\* C17: at most one reasoning call is outstanding, exactly while the loop waits for
\* it; until it ends no input is read, no further call is issued and no connection
\* is closed, and it ends only by a result or an error that the loop prints.
C17_OneOutstandingCall ==
    /\ [](outstanding <= 1 /\ (outstanding = 1 <=> pc = "processing"))
    /\ [][outstanding > 0 =>
            /\ inputsRead' = inputsRead
            /\ calls' = calls
            /\ opened' = opened /\ closed' = closed
            /\ pc' \in { "processing", "await_input" }
            /\ outstanding' # outstanding =>
                  /\ outstanding' = 0
                  /\ pc' = "await_input"
                  /\ Len(printed') > Len(printed)]_vars

\* The second reasoning call of a session is outstanding.
C17_Witness ==
    /\ prog = "batak_ollama"
    /\ pc = "processing"
    /\ outstanding = 1
    /\ calls = 2

\* C18: while a reasoning call of the unified assistant is outstanding it runs on
\* the worker thread, the event-loop thread is not blocked and provider I/O can be
\* serviced; the worker's result comes back to the waiting control flow as the
\* value returned to the loop.
C18_ReasoningOffloaded ==
    /\ []((prog = "batak_ollama" /\ outstanding > 0) =>
            /\ worker = "running"
            /\ ~blocked
            /\ ioServiced \/ ENABLED ServiceProviderIO)
    /\ [][(worker = "running" /\ worker' = "idle") =>
            /\ pc = "processing" /\ pc' = "await_input"
            /\ response'.kind \in { "text", "error" }
            /\ outstanding' = 0]_vars

\* Provider I/O was serviced while ollama.chat ran on the worker.
C18_Witness ==
    /\ prog = "batak_ollama"
    /\ worker = "running"
    /\ ioServiced
    /\ ~blocked

\* C19: nothing writes the history while a reasoning call is outstanding, so the
\* contents sent in the request are the contents of the history until the call
\* completes.
C19_SingleWriter ==
    /\ [][(outstanding > 0 /\ pc' = "processing") =>
            conversation_history' = conversation_history]_vars
    /\ []((prog = "batak_ollama" /\ outstanding > 0) =>
            [j \in 1..(Len(request.messages) - 1) |-> request.messages[j + 1].content]
              = [j \in 1..Len(conversation_history) |->
                    conversation_history[j].parts[1]])

\* The event loop serviced a provider during the second call; the history still
\* equals what was sent.
C19_Witness ==
    /\ prog = "batak_ollama"
    /\ pc = "processing"
    /\ ioServiced
    /\ Len(conversation_history) = 3

\* C20: the user turn is appended before the call is issued (the request already
\* ends with it); a model turn is appended only by the step that completes the
\* outstanding call, before any further input is read; there are never more model
\* turns than completed calls.
C20_StepsOrdered ==
    /\ [][(prog = "batak_ollama" /\ calls' # calls) =>
            /\ conversation_history'
                 = Append(conversation_history,
                          [role |-> "user", parts |-> <<Strip(line')>>])
            /\ Len(request'.messages) = Len(conversation_history') + 1
            /\ request'.messages[Len(request'.messages)]
                 = [role |-> "user", content |-> Strip(line')]]_vars
    /\ [][(Len(conversation_history') > Len(conversation_history)
           /\ conversation_history'[Len(conversation_history')].role = "model") =>
            /\ outstanding = 1 /\ outstanding' = 0
            /\ inputsRead' = inputsRead
            /\ pc = "processing" /\ pc' = "await_input"]_vars
    /\ [](Len(ModelTurns(conversation_history)) <= calls - outstanding)

\* Two utterances were each stored, sent and answered in turn.
C20_Witness ==
    /\ prog = "batak_ollama"
    /\ pc = "await_input"
    /\ calls = 2
    /\ outstanding = 0
    /\ Len(conversation_history) = 4

-----------------------------------------------------------------------------
(* Startup order, connection lifecycle and termination *)

StartOrder == <<"pdf", "email", "calendar", "websearch">>

\* C21: the unified assistant starts pdf, email, calendar and websearch in that
\* order, one at a time: what is open is always a prefix of that order, a provider's
\* transport is opened only when every provider before it has completed initialize
\* and list_tools, and the loop runs only when all four have.
C21_SequentialStart ==
    /\ []((prog = "batak_ollama" /\ pc = "starting") =>
            /\ Len(opened) <= 8
            /\ \A i \in 1..Len(opened) : opened[i].prov = StartOrder[(i + 1) \div 2])
    /\ [][(prog = "batak_ollama" /\ Len(opened') > Len(opened)
           /\ opened'[Len(opened')].kind = "transport") =>
            \A k \in 1..4 :
                StartOrder[k] = opened'[Len(opened')].prov =>
                    \A j \in 1..(k - 1) : stage[StartOrder[j]] = "listed"]_vars
    /\ []((prog = "batak_ollama" /\ InLoop) =>
            \A k \in 1..4 : stage[StartOrder[k]] = "listed")

\* The websearch transport has just been opened, the three providers before it being
\* ready and its own handshake not yet begun.
C21_Witness ==
    /\ prog = "batak_ollama"
    /\ pc = "starting"
    /\ Len(opened) = 7
    /\ opened[7] = [prov |-> "websearch", kind |-> "transport"]
    /\ stage["calendar"] = "listed"
    /\ stage["websearch"] = "none"

\* The number of scoped resources entered so far.
Entered == Len(opened) + Len(closed)

\* The position in Providers(prog) of the provider whose launch or handshake failed.
FailedIndex ==
    IF Entered % 2 = 1 THEN (Entered + 1) \div 2
    ELSE IF Entered > 0 /\ stage[Providers(prog)[Entered \div 2]] # "listed"
         THEN Entered \div 2
         ELSE (Entered \div 2) + 1

\* The lifecycle status of the k-th provider connection, read off the state:
\* its transport was entered or not, its handshake completed or not, its session
\* was closed or not, and whether it is the one that failed.
Status(k) ==
    LET p == Providers(prog)[k]
    IN  IF stage[p] = "listed"
        THEN IF \E i \in 1..Len(closed) : closed[i] = [prov |-> p, kind |-> "session"]
             THEN "Closed" ELSE "Ready"
        ELSE IF startFailed /\ k = FailedIndex THEN "Failed"
        ELSE IF 2 * k - 1 <= Entered THEN "Starting"
        ELSE "NotStarted"

Lifecycle ==
    { <<"NotStarted", "Starting">>, <<"NotStarted", "Failed">>, <<"Starting", "Ready">>,
      <<"Starting", "Failed">>, <<"Ready", "Closed">> }

\* C22: every provider connection moves only forward, Starting -> Ready -> Closed or
\* Starting -> Failed: one that is Closed or Failed never changes again, the
\* handshake stage never goes back, nothing closed is opened again, and no
\* transport or session is entered twice.
C22_LifecycleForward ==
    /\ [][\A k \in 1..NProviders :
            Status(k)' # Status(k) => <<Status(k), Status(k)'>> \in Lifecycle]_vars
    /\ [][\A i \in 1..Len(closed) : \A j \in 1..Len(opened') :
            closed[i] # opened'[j]]_vars
    /\ [][\A p \in ProviderIds :
            stage'[p] # stage[p] =>
                <<stage[p], stage'[p]>> \in { <<"none", "initialized">>,
                                              <<"initialized", "listed">> }]_vars
    /\ [](\A i, j \in 1..Entered :
            i # j => (opened \o closed)[i] # (opened \o closed)[j])

\* The websearch provider failed at list_tools; the three before it went from Ready
\* to Closed.
C22_Witness ==
    /\ prog = "batak_ollama"
    /\ pc = "exit"
    /\ Len(closed) = 8
    /\ stage["websearch"] = "initialized"
    /\ Status(4) = "Failed"
    /\ \A k \in 1..3 : Status(k) = "Closed"

\* C23: when the probe of the reasoning backend raises, main() of the unified
\* assistant reports it and returns: no provider is launched, no handshake is made,
\* no input is read and no reasoning call is issued, then or later.
C23_UnreachableBackendAborts ==
    ollama = "down" =>
        /\ pc = "exit"
        /\ opened = <<>> /\ closed = <<>>
        /\ \A p \in ProviderIds : stage[p] = "none"
        /\ inputsRead = 0
        /\ calls = 0
        /\ printed[Len(printed)] = "ollama_unreachable"

\* The unified assistant has returned from main() after a failed probe, with the
\* environment complete.
C23_Witness ==
    /\ prog = "batak_ollama"
    /\ ollama = "down"
    /\ "BRIGHT_DATA_API_KEY" \in env
    /\ mainRan
    /\ pc = "exit"

\* The run under the assumption that leaving a with-block completes: every
\* __aexit__ that is due returns or raises, and control then reaches the end of the
\* try statement.
FairSpec == Spec /\ WF_vars(CloseInnermost) /\ WF_vars(LeaveTry)

\* C24: once the sentinel was read, main() eventually returns with every connection
\* that was opened closed and none left open.
C24_QuitTerminates ==
    quitRead ~> (pc = "exit" /\ opened = <<>> /\ Len(closed) = 2 * NProviders)

\* The unified assistant has returned after the sentinel, all eight resources closed.
C24_Witness ==
    /\ prog = "batak_ollama"
    /\ quitRead
    /\ pc = "exit"
    /\ opened = <<>>
    /\ \A p \in { "pdf", "email", "calendar", "websearch" } :
         \E i \in 1..Len(closed) : closed[i] = [prov |-> p, kind |-> "session"]

-----------------------------------------------------------------------------
(* Failed calls, counts and the shape of requests *)

\* C25: when a reasoning call of the unified assistant fails, the history stays as
\* it was when the call was issued, ending with the user turn of that utterance; the
\* error text is the value returned for display and is not stored; the request of
\* the next utterance ends with two user messages, the unanswered one and the new.
C25_FailedCallKeepsUserTurn ==
    /\ [][(prog = "batak_ollama" /\ outstanding' < outstanding /\ returned' = returned) =>
            /\ conversation_history' = conversation_history
            /\ conversation_history'[Len(conversation_history')]
                 = [role |-> "user", parts |-> <<accepted[Len(accepted)]>>]
            /\ response' = [kind |-> "error", text |-> <<"#error_msg">>]
            /\ printed'[Len(printed')] = "response"]_vars
    /\ [][(prog = "batak_ollama" /\ calls' # calls /\ response.kind = "error") =>
            LET m == request'.messages
            IN  /\ Len(m) >= 3
                /\ m[Len(m) - 1] = [role |-> "user", content |-> accepted[Len(accepted)]]
                /\ m[Len(m)] = [role |-> "user", content |-> Strip(line')]
                /\ Len(conversation_history') = Len(conversation_history) + 1]_vars

\* The first call failed and the second request is outstanding: the history is two
\* user turns, and so is the request after its system message.
C25_Witness ==
    /\ prog = "batak_ollama"
    /\ pc = "processing"
    /\ calls = 2
    /\ returned = 0
    /\ response.kind = "error"
    /\ Len(conversation_history) = 2
    /\ request.messages[2].role = "user"
    /\ request.messages[3].role = "user"

\* C26: in the unified assistant, with N utterances accepted and S reasoning calls
\* returned, the history holds exactly N + S turns (between N and 2N); every model
\* turn comes right after a user turn, so no two model turns are adjacent and the
\* history never begins with one.
C26_HistoryCount ==
    prog = "batak_ollama" =>
        /\ Len(conversation_history) = Len(accepted) + returned
        /\ Len(accepted) <= Len(conversation_history)
        /\ Len(conversation_history) <= 2 * Len(accepted)
        /\ \A i \in 1..Len(conversation_history) :
             conversation_history[i].role = "model" =>
                 /\ i > 1
                 /\ conversation_history[i - 1].role = "user"

\* Two utterances, the first failed and the second answered: 2 + 1 turns.
C26_Witness ==
    /\ prog = "batak_ollama"
    /\ pc = "await_input"
    /\ Len(accepted) = 2
    /\ returned = 1
    /\ Len(conversation_history) = 3
    /\ conversation_history[3].role = "model"

\* C27: the number of reasoning calls issued equals the number of accepted
\* utterances: a call is issued only by the step that accepts a line, one per line,
\* and the completion of a call, by a result or by an error, issues none.
C27_OneCallPerUtterance ==
    /\ [](calls = Len(accepted))
    /\ [][calls' # calls =>
            /\ calls' = calls + 1
            /\ inputsRead' = inputsRead + 1
            /\ accepted' = Append(accepted, Strip(line'))
            /\ pc = "await_input"]_vars
    /\ [][pc = "processing" => calls' = calls]_vars

\* Both calls of an email assistant session failed; two utterances, two calls.
C27_Witness ==
    /\ prog = "email_assistant"
    /\ pc = "await_input"
    /\ Len(accepted) = 2
    /\ calls = 2
    /\ returned = 0
    /\ ErrorPrinted(printed)

\* The run left the loop because input() raised: the with-blocks are being or have
\* been left, and neither the sentinel nor a startup failure nor the one-shot
\* client's end is the cause.
InputFailed ==
    /\ pc \in { "unwinding", "exit" }
    /\ Entered > 0
    /\ ~quitRead
    /\ ~startFailed
    /\ prog # "email_client"

\* C28: when input() raises, the exception leaves the loop at once (no call is
\* issued, nothing is stored, the per-request handler prints nothing); the loop is
\* never entered again and no further input is read; all connections are closed in
\* reverse order of opening and then the outer handler reports the exception.
C28_InputErrorEndsSession ==
    /\ [][(pc = "await_input" /\ inputsRead' = inputsRead) =>
            /\ pc' = "unwinding"
            /\ exc'
            /\ calls' = calls
            /\ conversation_history' = conversation_history
            /\ printed' = printed
            /\ opened' = opened]_vars
    /\ [][exc => (~InLoop' /\ inputsRead' = inputsRead /\ calls' = calls)]_vars
    /\ []((InputFailed /\ pc = "exit") =>
            /\ opened = <<>>
            /\ Len(closed) = 2 * NProviders
            /\ \A i \in 1..Len(closed) :
                 closed[i] = Acquisition(prog)[2 * NProviders + 1 - i]
            /\ printed[Len(printed)] = "outer_handler")

\* After one answered utterance input() raised in the unified assistant: the eight
\* resources are closed and the outer handler has reported.
C28_Witness ==
    /\ prog = "batak_ollama"
    /\ InputFailed
    /\ pc = "exit"
    /\ inputsRead = 1
    /\ returned = 1
    /\ Len(closed) = 8
    /\ printed[Len(printed)] = "outer_handler"

\* C29: the history of the unified assistant holds user and model turns only, no
\* system turn; every request begins with the system instruction
\* and holds no other system message, however long the history; the messages after
\* it carry the stored turns' roles, "model" being sent as "assistant" and "user" as
\* "user".
C29_SystemInstructionPrepended ==
    prog = "batak_ollama" =>
        /\ \A i \in 1..Len(conversation_history) :
             conversation_history[i].role \in { "user", "model" }
        /\ calls > 0 =>
             LET m == request.messages
             IN  /\ m[1] = [role |-> "system", content |-> <<"#system_instruction">>]
                 /\ Len(m) - 1 <= Len(conversation_history)
                 /\ \A i \in 2..Len(m) :
                      /\ m[i].role # "system"
                      /\ conversation_history[i - 1].role = "user" => m[i].role = "user"
                      /\ conversation_history[i - 1].role = "model"
                           => m[i].role = "assistant"

\* The second request of a session was answered: it held the system instruction,
\* the first utterance, its answer as an assistant message, and the second utterance.
C29_Witness ==
    /\ prog = "batak_ollama"
    /\ pc = "await_input"
    /\ calls = 2
    /\ returned = 2
    /\ Len(request.messages) = 4
    /\ request.messages[1].role = "system"
    /\ conversation_history[2].role = "model"
    /\ request.messages[3].role = "assistant"

\* C30: when the probe finds the backend but not the model, the unified assistant
\* prints a warning and goes on to start its providers; main() does not return
\* before a provider was attempted; in the loop no call ever returns a result: each
\* one ends as an error that is caught, printed and returned for display, with all
\* connections still open and the loop awaiting input again.
C30_MissingModelOnlyWarns ==
    /\ [][(ollama = "unprobed" /\ ollama' = "model_missing") =>
            /\ printed'[Len(printed')] = "model_not_found_warning"
            /\ pc' # "exit"
            /\ "BRIGHT_DATA_API_KEY" \in env => pc' = "starting"]_vars
    /\ []((ollama = "model_missing" /\ pc = "exit") => (Entered > 0 \/ startFailed))
    /\ [](ollama = "model_missing" =>
            /\ returned = 0
            /\ \A i \in 1..Len(conversation_history) :
                 conversation_history[i].role = "user")
    /\ [][(ollama = "model_missing" /\ pc = "processing" /\ pc' # "processing") =>
            /\ pc' = "await_input"
            /\ response' = [kind |-> "error", text |-> <<"#error_msg">>]
            /\ \E i \in 1..Len(printed') : printed'[i] = "ollama_call_error"
            /\ ~exc'
            /\ opened' = Acquisition(prog)
            /\ closed' = <<>>]_vars

\* With the model missing, the unified assistant started all four providers and
\* both utterances of the session ended as errors; it awaits the third.
C30_Witness ==
    /\ prog = "batak_ollama"
    /\ ollama = "model_missing"
    /\ pc = "await_input"
    /\ AllOpen
    /\ calls = 2
    /\ response.kind = "error"

====
